---- MODULE Spec2Model ----
(***************************************************************************)
(* A model of the pinocchio-escrow program: the entrypoint                 *)
(* (process_instruction) and the three handlers process_make_instruction,  *)
(* process_take_instruction and process_refund_instruction, each as one    *)
(* atomic ledger instruction over a small set of accounts.  An instruction *)
(* that returns an error or panics leaves every account as it was (the     *)
(* ledger rolls the transaction back).                                     *)
(***************************************************************************)
EXTENDS Integers, Sequences, FiniteSets, TLC

\* ------------------------------------------------------------------ bounds

\* Opening token balance: A's X account and B's Y account.
InitTokens == 2

\* Opening lamport balance of every wallet.
InitLamports == 2

\* Tokens of X that vault V2 already holds before any Create names it.
Prefund == 1

\* ---------------------------------------------------------------- accounts

\* Public keys of wallets are one-element tuples; a program-derived address is
\* the maker's key followed by the bump seeds it was derived from, so that two
\* different seed lists never give the same address.
A == <<"A">>
B == <<"B">>
Wallets == {A, B}

\* Mint accounts: MX and MY are owned by the token program, MF is an account
\* that looks like a mint but is owned by the system program.
Mints == {"MX", "MY", "MF"}
MintOwner(m) == IF m = "MF" THEN "System" ELSE "Token"

\* Seed lists for which no program-derived address exists (the hash lands on
\* the curve).
OnCurve == {<<B, <<255>>>>, <<A, <<255, 255>>>>, <<A, <<254, 255>>>>}

\* pubkey::checked_create_program_address(["escrow", maker, seeds...], id)
checked_create_program_address(maker, seeds) ==
    IF <<maker, seeds>> \in OnCurve
    THEN [ok |-> FALSE, key |-> <<>>]
    ELSE [ok |-> TRUE, key |-> maker \o seeds]

\* pubkey::find_program_address(["escrow", maker, seeds...], id): tries the
\* bump seeds 255, 254, ... appended to the given seeds and returns the first
\* address that exists.
RECURSIVE FindFrom(_, _, _)
FindFrom(maker, seeds, b) ==
    LET p == checked_create_program_address(maker, Append(seeds, b))
    IN IF p.ok \/ b = 0 THEN p ELSE FindFrom(maker, seeds, b - 1)

find_program_address(maker, seeds) == FindFrom(maker, seeds, 255)

\* The escrow slots of the model: the addresses derived for maker A with
\* bumps 255 and 254, and the address find_program_address gives for
\* ("escrow", A, 255).
E1 == A \o <<255>>
E2 == A \o <<254>>
E3 == A \o <<255, 254>>
EscrowAccts == {E1, E2, E3}

\* Token accounts: each wallet's X and Y account, and three vaults.
Vaults == {"V1", "V2", "V3"}
WalletToks == {"AX", "AY", "BX", "BY"}
TokAccts == WalletToks \cup Vaults

\* Rent::get()?.minimum_balance(Escrow::SIZE), in lamports.
EscrowRent == 1

\* ------------------------------------------------------------------- state

VARIABLES
    wallet,      \* lamports of each wallet
    esc,         \* escrow slots: lamports, owner, data_empty, rec
    tok,         \* token accounts: open, mint, owner, amount, lamports
    strictCpi,   \* whether the CPI helpers reject an account whose data is borrowed
    checkedLoad, \* whether Escrow::from_account_info checks the account it is given
    settled,     \* pairs <<escrow, vault>> on which a Take or Refund has succeeded
    last         \* the last handler call or reclaim the ledger committed

vars == <<wallet, esc, tok, strictCpi, checkedLoad, settled, last>>

\* Escrow::from_account_info reads these fields; account data allocated by
\* CreateAccount is zeroed.
ZeroRecord == [maker |-> <<>>, mint_x |-> "", mint_y |-> "", amount |-> 0, bump |-> 0]

EmptySlot == [lamports |-> 0, owner |-> "System", data_empty |-> TRUE, rec |-> ZeroRecord]

ClosedToken == [open |-> FALSE, mint |-> "", owner |-> <<>>, amount |-> 0, lamports |-> 0]

TokenAcct(m, o, n) == [open |-> TRUE, mint |-> m, owner |-> o, amount |-> n, lamports |-> 1]

Init ==
    /\ wallet = [w \in Wallets |-> InitLamports]
    /\ esc = [e \in EscrowAccts |-> EmptySlot]
    /\ tok = [t \in TokAccts |->
                CASE t = "AX" -> TokenAcct("MX", A, InitTokens)
                  [] t = "AY" -> TokenAcct("MY", A, 0)
                  [] t = "BX" -> TokenAcct("MX", B, 0)
                  [] t = "BY" -> TokenAcct("MY", B, InitTokens)
                  [] t = "V1" -> TokenAcct("MX", E1, 0)
                  [] t = "V2" -> TokenAcct("MX", E1, Prefund)
                  [] t = "V3" -> TokenAcct("MX", E2, 0)]
    /\ strictCpi \in BOOLEAN
    /\ checkedLoad \in BOOLEAN
    /\ settled = {}
    /\ last = [op |-> "init", changed |-> FALSE]

\* ------------------------------------------------------- instruction data

\* u64::to_le_bytes: the k low bytes of n, lowest first.
RECURSIVE LEBytes(_, _)
LEBytes(n, k) == IF k = 0 THEN <<>> ELSE <<n % 256>> \o LEBytes(n \div 256, k - 1)

\* *(ptr.add(off) as *const u64): the eight bytes after offset off, read
\* little-endian (the target reads unaligned words), by Horner's rule from
\* the highest byte down.
RECURSIVE ReadLE(_, _, _)
ReadLE(data, off, i) ==
    IF i > 8 THEN 0 ELSE data[off + i] + 256 * ReadLE(data, off, i + 1)

ReadU64(data, off) == ReadLE(data, off, 1)

\* The instruction data of a Create: bump, amount of Y wanted, amount of X
\* deposited.
MakeData(bump, y, x) == <<bump>> \o LEBytes(y, 8) \o LEBytes(x, 8)

Bumps == {254, 255}

\* The quantities named in a payload: <<Y wanted, X deposited>>.
Quantities == {<<1, 2>>, <<2, 1>>}

\* Well-formed payloads, and one that is a byte short.
Payloads ==
    {MakeData(b, q[1], q[2]) : b \in Bumps, q \in Quantities}
    \cup {SubSeq(MakeData(255, 1, 2), 1, 16)}

\* ------------------------------------------- the programs the handlers call

\* What the handlers return: a result code and the accounts after the call.
\* A handler that fails returns the accounts as they were.
Fail(code) == [res |-> code, wallet |-> wallet, esc |-> esc, tok |-> tok]

\* invoke_signed(&[seeds]) with the seeds ("escrow", maker, bump): the ledger
\* derives the address from the seeds and counts that account as a signer of
\* the inner instruction.
PdaSigns(maker, bump, account) ==
    LET p == checked_create_program_address(maker, <<bump>>)
    IN p.ok /\ p.key = account

\* A plausible slip: the authority's signature is not asked for.
TransferOkUnsigned(t, from, to, authority, signed, amount) ==
    /\ t[from].open /\ t[to].open
    /\ t[from].mint = t[to].mint
    /\ t[from].amount >= amount
    /\ t[from].owner = authority

\* A plausible slip: any signer may move the tokens of any account.
TransferOkAnyAuthority(t, from, to, authority, signed, amount) ==
    /\ t[from].open /\ t[to].open
    /\ t[from].mint = t[to].mint
    /\ t[from].amount >= amount
    /\ signed

\* The token program's Transfer: both accounts are initialized token accounts
\* of one mint, the source holds the amount, and the authority is the source's
\* owner and signs.  A transfer of an account to itself changes nothing.
TransferOk(t, from, to, authority, signed, amount) ==
    /\ t[from].open /\ t[to].open
    /\ t[from].mint = t[to].mint
    /\ t[from].amount >= amount
    /\ t[from].owner = authority
    /\ signed

TransferApply(t, from, to, amount) ==
    IF from = to THEN t
    ELSE [t EXCEPT ![from].amount = @ - amount, ![to].amount = @ + amount]

\* The token program's CloseAccount: the account is an initialized token
\* account holding no tokens and the authority is its owner and signs.  Its
\* lamports go to the destination and the account is deleted.
CloseOk(t, account, authority, signed) ==
    /\ t[account].open
    /\ t[account].amount = 0
    /\ t[account].owner = authority
    /\ signed

\* The system program's CreateAccount: payer and new account both sign, the
\* new account is not in use, and the payer can fund it.
CreateAccountOk(w, e, from, fromSigned, to, toSigned, lamports) ==
    /\ fromSigned /\ toSigned
    /\ e[to].lamports = 0 /\ e[to].data_empty /\ e[to].owner = "System"
    /\ w[from] >= lamports

\* Escrow::from_account_info: a loader that checks its account panics unless
\* the account holds a record of this program; one that does not check hands
\* back whatever the account's bytes are (zeroes for an account without data).
HoldsRecord(e, a) == checkedLoad => (~e[a].data_empty /\ e[a].owner = "Program")

\* ----------------------------------------------------------------- Create

\* Who is named as maker (or taker) and whether that account signed.
Parties == {[key |-> A, signer |-> TRUE], [key |-> A, signer |-> FALSE],
            [key |-> B, signer |-> TRUE]}

\* The mint accounts supplied: the right pair, and each mint replaced by the
\* account the token program does not own.
MintPairs == {<<"MX", "MY">>, <<"MF", "MY">>, <<"MX", "MF">>}

\* Two more inputs of Create: one that names the mints the other way round
\* while the token accounts are those of X, and one that names a vault of
\* another escrow as the account to debit.
MakeExtras ==
    {[short |-> FALSE, maker |-> A, signer |-> TRUE,
      mint_x |-> "MY", mint_y |-> "MX", maker_ata |-> "AX",
      vault |-> "V1", escrow |-> E1, data |-> MakeData(255, 1, 2)],
     [short |-> FALSE, maker |-> A, signer |-> TRUE,
      mint_x |-> "MX", mint_y |-> "MY", maker_ata |-> "V2",
      vault |-> "V3", escrow |-> E2, data |-> MakeData(254, 2, 1)]}

Slots == {E1, E2}

MakeArgs ==
    {[short |-> FALSE, maker |-> p.key, signer |-> p.signer,
      mint_x |-> m[1], mint_y |-> m[2], maker_ata |-> src,
      vault |-> v, escrow |-> e, data |-> d] :
        p \in Parties, m \in MintPairs, src \in {"AX", "BX"},
        v \in Vaults, e \in Slots, d \in Payloads}
    \cup MakeExtras
    \cup
    {[short |-> TRUE, maker |-> A, signer |-> TRUE,
      mint_x |-> "MX", mint_y |-> "MY", maker_ata |-> "AX",
      vault |-> "V1", escrow |-> E1, data |-> MakeData(255, 1, 2)]}

\* The record Create writes and the deposit it makes into the vault.
MakeRecord(a) ==
    [maker |-> a.maker, mint_x |-> a.mint_x, mint_y |-> a.mint_y,
     amount |-> ReadU64(a.data, 1), bump |-> a.data[1]]

\* A plausible slip: the deposit is read from the offset of the amount wanted.
MakeDepositWrongOffset(a) == ReadU64(a.data, 1)

MakeDeposit(a) == ReadU64(a.data, 9)

\* The branch taken when the escrow's data is empty and the program does not
\* own it yet: CreateAccount, the record, then the deposit.
MakeCreate(a) ==
    LET bump == a.data[1]
        esc1 == [esc EXCEPT ![a.escrow] =
                    [lamports |-> EscrowRent, owner |-> "Program",
                     data_empty |-> FALSE, rec |-> MakeRecord(a)]]
        wallet1 == [wallet EXCEPT ![a.maker] = @ - EscrowRent]
    IN IF ~CreateAccountOk(wallet, esc, a.maker, a.signer, a.escrow,
                           PdaSigns(a.maker, bump, a.escrow), EscrowRent)
       THEN Fail("CreateAccountFailed")
       ELSE IF ~TransferOk(tok, a.maker_ata, a.vault, a.maker, a.signer, MakeDeposit(a))
       THEN Fail("TransferFailed")
       ELSE [res |-> "Ok", wallet |-> wallet1, esc |-> esc1,
             tok |-> TransferApply(tok, a.maker_ata, a.vault, MakeDeposit(a))]

\* A plausible slip: the owner of the second mint is not looked at.
MakeChecksNoMintY(a) ==
    IF MintOwner(a.mint_x) # "Token" THEN "Panic:mint_x"
    ELSE IF ~tok[a.vault].open THEN "Panic:vault"
    ELSE IF tok[a.vault].owner # a.escrow THEN "Panic:vault_owner"
    ELSE "Ok"

\* A plausible slip: the vault's owner is not compared with the escrow.
MakeChecksNoVaultOwner(a) ==
    IF MintOwner(a.mint_x) # "Token" THEN "Panic:mint_x"
    ELSE IF MintOwner(a.mint_y) # "Token" THEN "Panic:mint_y"
    ELSE IF ~tok[a.vault].open THEN "Panic:vault"
    ELSE "Ok"

\* The checks made when the escrow's data is empty.
MakeChecks(a) ==
    IF MintOwner(a.mint_x) # "Token" THEN "Panic:mint_x"
    ELSE IF MintOwner(a.mint_y) # "Token" THEN "Panic:mint_y"
    ELSE IF ~tok[a.vault].open THEN "Panic:vault"
    ELSE IF tok[a.vault].owner # a.escrow THEN "Panic:vault_owner"
    ELSE "Ok"

\* A plausible slip: the deposit is made again on a record that exists.
MakeDepositAgain(a) ==
    IF a.short THEN Fail("NotEnoughAccountKeys")
    ELSE IF Len(a.data) < 17 THEN Fail("InvalidInstructionData")
    ELSE LET pda == checked_create_program_address(a.maker, <<a.data[1]>>)
         IN IF ~pda.ok THEN Fail("Panic:unwrap")
            ELSE IF pda.key # a.escrow THEN Fail("Panic:pda")
            ELSE IF MakeChecks(a) # "Ok" THEN Fail(MakeChecks(a))
            ELSE IF esc[a.escrow].data_empty THEN MakeCreate(a)
            ELSE IF ~TransferOk(tok, a.maker_ata, a.vault, a.maker, a.signer,
                                MakeDeposit(a))
            THEN Fail("TransferFailed")
            ELSE [res |-> "Ok", wallet |-> wallet, esc |-> esc,
                  tok |-> TransferApply(tok, a.maker_ata, a.vault, MakeDeposit(a))]

\* A plausible slip: the already-initialized error is given for a slot that
\* holds data, and a slot without data is always allocated.
MakeErrorOnData(a) ==
    IF a.short THEN Fail("NotEnoughAccountKeys")
    ELSE IF Len(a.data) < 17 THEN Fail("InvalidInstructionData")
    ELSE LET pda == checked_create_program_address(a.maker, <<a.data[1]>>)
         IN IF ~pda.ok THEN Fail("Panic:unwrap")
            ELSE IF pda.key # a.escrow THEN Fail("Panic:pda")
            ELSE IF esc[a.escrow].data_empty
            THEN IF MakeChecks(a) # "Ok" THEN Fail(MakeChecks(a))
                 ELSE MakeCreate(a)
            ELSE Fail("AccountAlreadyInitialized")

process_make_instruction(a) ==
    IF a.short THEN Fail("NotEnoughAccountKeys")
    ELSE IF Len(a.data) < 17 THEN Fail("InvalidInstructionData")
    ELSE LET pda == checked_create_program_address(a.maker, <<a.data[1]>>)
         IN IF ~pda.ok THEN Fail("Panic:unwrap")
            ELSE IF pda.key # a.escrow THEN Fail("Panic:pda")
            ELSE IF esc[a.escrow].data_empty
            THEN IF MakeChecks(a) # "Ok" THEN Fail(MakeChecks(a))
                 ELSE IF esc[a.escrow].owner # "Program" THEN MakeCreate(a)
                 ELSE Fail("AccountAlreadyInitialized")
            ELSE Fail("Ok")

\* One instruction.  A call that succeeds is committed: the accounts become
\* what the handler returned.  A call that returns an error or panics is
\* rolled back and leaves the ledger as it was.
Changed(o) == o.wallet # wallet \/ o.esc # esc \/ o.tok # tok

Commit(op, o, pairs) ==
    IF o.res = "Ok"
    THEN /\ wallet' = o.wallet
         /\ esc' = o.esc
         /\ tok' = o.tok
         /\ settled' = settled \cup pairs
         /\ last' = [op |-> op, changed |-> Changed(o)]
         /\ UNCHANGED <<strictCpi, checkedLoad>>
    ELSE UNCHANGED vars

Make ==
    \E a \in MakeArgs :
        Commit("make", process_make_instruction(a), {})

\* ---------------------------------------------------------------- Execute

TakeArgs ==
    {[short |-> FALSE, taker |-> p.key, signer |-> p.signer, maker |-> mk,
      mint_x |-> m[1], mint_y |-> m[2],
      taker_ata_x |-> IF p.key = A THEN "AX" ELSE "BX",
      taker_ata_y |-> IF p.key = A THEN "AY" ELSE "BY",
      maker_ata_y |-> dst, vault |-> v, escrow |-> e] :
        p \in Parties, mk \in Wallets, m \in MintPairs, dst \in {"AY", "BY"},
        v \in Vaults, e \in EscrowAccts}
    \cup
    {[short |-> TRUE, taker |-> B, signer |-> TRUE, maker |-> A,
      mint_x |-> "MX", mint_y |-> "MY", taker_ata_x |-> "BX",
      taker_ata_y |-> "BY", maker_ata_y |-> "AY", vault |-> "V1",
      escrow |-> E1]}

\* TokenAccount::from_account_info(vault) returns a borrow of the vault's data
\* that lives to the end of the handler.  A CPI helper that validates borrows
\* rejects a call that names the vault as writable while that borrow is live.
VaultBorrowed == strictCpi

\* The address the handler compares the escrow account with.
TakeDerived(maker, bump) == find_program_address(maker, <<bump>>)

\* A plausible slip: the vault is never closed.
CloseBothKeepVault(w, e, t, maker, vault, escrow) ==
    [res |-> "Ok",
     wallet |-> [w EXCEPT ![maker] = @ + e[escrow].lamports],
     esc |-> [e EXCEPT ![escrow].lamports = 0],
     tok |-> t]

\* A plausible slip: the closed vault's lamports are credited to nobody.
CloseBothDropRent(w, e, t, maker, vault, escrow) ==
    [res |-> "Ok",
     wallet |-> [w EXCEPT ![maker] = @ + e[escrow].lamports],
     esc |-> [e EXCEPT ![escrow].lamports = 0],
     tok |-> [t EXCEPT ![vault] = ClosedToken]]

\* A plausible slip: the escrow's lamports are left where they are.
CloseBothKeepEscrow(w, e, t, maker, vault, escrow) ==
    [res |-> "Ok",
     wallet |-> [w EXCEPT ![maker] = @ + t[vault].lamports],
     esc |-> e,
     tok |-> [t EXCEPT ![vault] = ClosedToken]]

\* Closing: the vault's lamports, then the escrow's, go to the maker.
CloseBoth(w, e, t, maker, vault, escrow) ==
    [res |-> "Ok",
     wallet |-> [w EXCEPT ![maker] = @ + t[vault].lamports + e[escrow].lamports],
     esc |-> [e EXCEPT ![escrow].lamports = 0],
     tok |-> [t EXCEPT ![vault] = ClosedToken]]

\* The two legs and the closing, once the checks have passed.
TakeSettle(a) ==
    LET rec == esc[a.escrow].rec
        signed == PdaSigns(a.maker, rec.bump, a.escrow)
        tok1 == TransferApply(tok, a.taker_ata_y, a.maker_ata_y, rec.amount)
        tok2 == TransferApply(tok1, a.vault, a.taker_ata_x, tok1[a.vault].amount)
    IN IF ~TransferOk(tok, a.taker_ata_y, a.maker_ata_y, a.taker, a.signer, rec.amount)
       THEN Fail("TransferFailed")
       ELSE IF VaultBorrowed THEN Fail("AccountBorrowFailed")
       ELSE IF ~TransferOk(tok1, a.vault, a.taker_ata_x, a.escrow, signed,
                           tok1[a.vault].amount)
       THEN Fail("TransferFailed")
       ELSE IF ~CloseOk(tok2, a.vault, a.escrow, signed)
       THEN Fail("CloseFailed")
       ELSE CloseBoth(wallet, esc, tok2, a.maker, a.vault, a.escrow)

\* The checks made before the first transfer, in the handler's order.
TakeChecks(a) ==
    IF a.short THEN "NotEnoughAccountKeys"
    ELSE IF ~HoldsRecord(esc, a.escrow) THEN "Panic:escrow"
    ELSE IF esc[a.escrow].rec.mint_x # a.mint_x THEN "Panic:mint_x"
    ELSE IF esc[a.escrow].rec.mint_y # a.mint_y THEN "Panic:mint_y"
    ELSE IF ~tok[a.vault].open THEN "InvalidAccountData"
    ELSE IF TakeDerived(a.maker, esc[a.escrow].rec.bump).key # a.escrow THEN "Panic:pda"
    ELSE "Ok"

process_take_instruction(a) ==
    IF TakeChecks(a) # "Ok" THEN Fail(TakeChecks(a)) ELSE TakeSettle(a)

Take ==
    \E a \in TakeArgs :
        Commit("take", process_take_instruction(a), {<<a.escrow, a.vault>>})

\* ----------------------------------------------------------------- Cancel

RefundArgs ==
    {[short |-> FALSE, maker |-> p.key, signer |-> p.signer, mint_a |-> m,
      maker_ata_a |-> dst, escrow |-> e, vault |-> v] :
        p \in Parties, m \in Mints, dst \in {"AX", "BX"},
        e \in EscrowAccts, v \in Vaults}
    \cup
    {[short |-> TRUE, maker |-> A, signer |-> TRUE, mint_a |-> "MX",
      maker_ata_a |-> "AX", escrow |-> E1, vault |-> "V1"]}

RefundSettle(a) ==
    LET rec == esc[a.escrow].rec
        signed == PdaSigns(a.maker, rec.bump, a.escrow)
        tok1 == TransferApply(tok, a.vault, a.maker_ata_a, tok[a.vault].amount)
    IN IF VaultBorrowed THEN Fail("AccountBorrowFailed")
       ELSE IF ~TransferOk(tok, a.vault, a.maker_ata_a, a.escrow, signed,
                           tok[a.vault].amount)
       THEN Fail("TransferFailed")
       ELSE IF ~CloseOk(tok1, a.vault, a.escrow, signed)
       THEN Fail("CloseFailed")
       ELSE CloseBoth(wallet, esc, tok1, a.maker, a.vault, a.escrow)

\* A plausible slip: the maker's signature is not asked for.
RefundChecksNoSigner(a) ==
    IF a.short THEN "NotEnoughAccountKeys"
    ELSE IF ~HoldsRecord(esc, a.escrow) THEN "Panic:escrow"
    ELSE IF esc[a.escrow].rec.maker # a.maker THEN "Panic:maker"
    ELSE IF esc[a.escrow].rec.mint_x # a.mint_a THEN "Panic:mint_x"
    ELSE IF ~tok[a.vault].open THEN "InvalidAccountData"
    ELSE IF tok[a.vault].owner # a.escrow THEN "Panic:vault_owner"
    ELSE "Ok"

\* A plausible slip: the mint is not compared with the record's.
RefundChecksNoMint(a) ==
    IF a.short THEN "NotEnoughAccountKeys"
    ELSE IF ~a.signer THEN "MissingRequiredSignature"
    ELSE IF ~HoldsRecord(esc, a.escrow) THEN "Panic:escrow"
    ELSE IF esc[a.escrow].rec.maker # a.maker THEN "Panic:maker"
    ELSE IF ~tok[a.vault].open THEN "InvalidAccountData"
    ELSE IF tok[a.vault].owner # a.escrow THEN "Panic:vault_owner"
    ELSE "Ok"

\* The checks made before the transfer, in the handler's order.
RefundChecks(a) ==
    IF a.short THEN "NotEnoughAccountKeys"
    ELSE IF ~a.signer THEN "MissingRequiredSignature"
    ELSE IF ~HoldsRecord(esc, a.escrow) THEN "Panic:escrow"
    ELSE IF esc[a.escrow].rec.maker # a.maker THEN "Panic:maker"
    ELSE IF esc[a.escrow].rec.mint_x # a.mint_a THEN "Panic:mint_x"
    ELSE IF ~tok[a.vault].open THEN "InvalidAccountData"
    ELSE IF tok[a.vault].owner # a.escrow THEN "Panic:vault_owner"
    ELSE "Ok"

process_refund_instruction(a) ==
    IF RefundChecks(a) # "Ok" THEN Fail(RefundChecks(a)) ELSE RefundSettle(a)

Refund ==
    \E a \in RefundArgs :
        Commit("refund", process_refund_instruction(a), {<<a.escrow, a.vault>>})

\* ------------------------------------------------------------- entrypoint

\* Instruction data handed to the entrypoint: nothing, and a tag byte
\* followed by a payload.
EntryData ==
    {<<>>, <<0>> \o MakeData(255, 1, 2), <<1>>, <<2>>, <<3>>}

\* Account lists handed to the entrypoint.
EntryAccounts == {a \in MakeArgs : a.maker = A /\ a.vault = "V1" /\ a.escrow = E1
                                   /\ a.maker_ata = "AX" /\ a.mint_y = "MY"
                                   /\ a.data = MakeData(255, 1, 2)}

\* process_instruction splits off the first byte and returns; the accounts
\* and the rest of the data are not used.
process_instruction(accounts, data) ==
    IF Len(data) = 0 THEN Fail("InvalidInstructionData") ELSE Fail("Ok")

\* Whatever the data, the entrypoint leaves every account as it was.
Entry ==
    \E a \in EntryAccounts, d \in EntryData :
        /\ process_instruction(a, d).res \in {"Ok", "InvalidInstructionData"}
        /\ wallet' = process_instruction(a, d).wallet
        /\ esc' = process_instruction(a, d).esc
        /\ tok' = process_instruction(a, d).tok
        /\ UNCHANGED <<strictCpi, checkedLoad, settled, last>>

\* ----------------------------------------------------------------- ledger

\* At the end of a transaction the ledger deletes every account left with no
\* lamports: its data is dropped and it returns to the system program.
LedgerReclaim ==
    \E e \in EscrowAccts :
        /\ esc[e].lamports = 0 /\ ~esc[e].data_empty
        /\ esc' = [esc EXCEPT ![e] = EmptySlot]
        /\ last' = [op |-> "reclaim", changed |-> TRUE]
        /\ UNCHANGED <<wallet, tok, strictCpi, checkedLoad, settled>>

Next == Make \/ Take \/ Refund \/ Entry \/ LedgerReclaim

Spec == Init /\ [][Next]_vars

\* The Create handler as a function of the accounts it is handed: the slot E1
\* starts in any shape an account can have (its data empty or not, owned by
\* the system program or by this program).
SlotShapes ==
    {[lamports |-> IF d THEN 0 ELSE EscrowRent, owner |-> o, data_empty |-> d,
      rec |-> ZeroRecord] : d \in BOOLEAN, o \in {"System", "Program"}}

InitAnySlot ==
    /\ wallet = [w \in Wallets |-> InitLamports]
    /\ \E shape \in SlotShapes :
          esc = [e \in EscrowAccts |-> IF e = E1 THEN shape ELSE EmptySlot]
    /\ tok = [t \in TokAccts |->
                CASE t = "AX" -> TokenAcct("MX", A, InitTokens)
                  [] t = "AY" -> TokenAcct("MY", A, 0)
                  [] t = "BX" -> TokenAcct("MX", B, 0)
                  [] t = "BY" -> TokenAcct("MY", B, InitTokens)
                  [] t = "V1" -> TokenAcct("MX", E1, 0)
                  [] t = "V2" -> TokenAcct("MX", E1, Prefund)
                  [] t = "V3" -> TokenAcct("MX", E2, 0)]
    /\ strictCpi \in BOOLEAN
    /\ checkedLoad \in BOOLEAN
    /\ settled = {}
    /\ last = [op |-> "init", changed |-> FALSE]

SpecAnySlot == InitAnySlot /\ [][Next]_vars

\* ------------------------------------------------------------ properties

\* An escrow is Active while its account holds a record and its rent.
Active(e) == ~esc[e].data_empty /\ esc[e].owner = "Program" /\ esc[e].lamports > 0

\* The call returned an error or panicked, and no account changed.
Rejected(o) == o.res # "Ok" /\ ~Changed(o)

\* C1: on a pair of escrow and vault addresses on which an Execute or a Cancel
\* has succeeded, every later Execute and every later Cancel fails and changes
\* no token balance and no lamports; so at most one attempt on the pair ever
\* succeeds.
C1_SettledOnce ==
    /\ \A a \in TakeArgs :
          <<a.escrow, a.vault>> \in settled => Rejected(process_take_instruction(a))
    /\ \A a \in RefundArgs :
          <<a.escrow, a.vault>> \in settled => Rejected(process_refund_instruction(a))

\* A Cancel has succeeded, and the maker's next Cancel on the same escrow and
\* vault, with the record still in the account, is turned down.
C1_Witness ==
    /\ last.op = "refund"
    /\ \E a \in RefundArgs :
          /\ <<a.escrow, a.vault>> \in settled
          /\ a.signer /\ ~esc[a.escrow].data_empty
          /\ a.maker = esc[a.escrow].rec.maker
          /\ a.mint_a = esc[a.escrow].rec.mint_x
          /\ process_refund_instruction(a).res = "InvalidAccountData"

\* C4: a Cancel succeeds only if the account named as maker signed and is the
\* maker stored in the record; and a successful Cancel adds to the destination
\* account the maker supplied exactly what the vault held just before.
C4_CancelByMaker ==
    \A a \in RefundArgs :
        LET o == process_refund_instruction(a)
        IN o.res = "Ok" =>
            /\ a.signer
            /\ a.maker = esc[a.escrow].rec.maker
            /\ o.tok[a.maker_ata_a].amount
                 = tok[a.maker_ata_a].amount + tok[a.vault].amount

\* The one Cancel committed so far, the last call, has emptied the vault that
\* held more than the deposit: every token of X is in a wallet's account.
C4_Witness ==
    /\ last.op = "refund"
    /\ Cardinality({v \in Vaults : ~tok[v].open}) = 1
    /\ ~tok["V2"].open
    /\ tok["AX"].amount + tok["BX"].amount = InitTokens + Prefund

\* C6: a Create naming the maker and bump of a record that is already Active
\* changes nothing: no token account, no lamports and no escrow record.
C6_SecondCreateNoChange ==
    \A a \in MakeArgs :
        (/\ ~a.short /\ Len(a.data) >= 17
         /\ Active(a.escrow)
         /\ a.maker = esc[a.escrow].rec.maker
         /\ a.data[1] = esc[a.escrow].rec.bump)
        => ~Changed(process_make_instruction(a))

\* A Create on an Active record has been committed without any effect.
C6_Witness ==
    /\ last.op = "make" /\ ~last.changed
    /\ \E e \in Slots : Active(e)

\* C8: a Cancel whose maker account did not sign or is not the recorded maker,
\* whose mint is not the record's mint_x, or whose vault is not a token account
\* held by the escrow's address, is turned down and changes nothing.
C8_CancelRejected ==
    \A a \in RefundArgs :
        (/\ ~a.short
         /\ \/ ~a.signer
            \/ a.maker # esc[a.escrow].rec.maker
            \/ a.mint_a # esc[a.escrow].rec.mint_x
            \/ ~tok[a.vault].open
            \/ tok[a.vault].owner # a.escrow)
        => Rejected(process_refund_instruction(a))

\* An Active escrow with a funded vault on which a signer other than the
\* recorded maker is turned down.
C8_Witness ==
    \E a \in RefundArgs :
        /\ Active(a.escrow) /\ a.signer
        /\ a.maker # esc[a.escrow].rec.maker
        /\ a.mint_a = esc[a.escrow].rec.mint_x
        /\ tok[a.vault].open /\ tok[a.vault].owner = a.escrow
        /\ tok[a.vault].amount > 0
        /\ process_refund_instruction(a).res = "Panic:maker"

\* C3: for every Active escrow the address Execute derives from the recorded
\* maker and bump is the escrow's own address, and an Execute by a signing
\* taker who holds the wanted amount, naming the recorded maker and mints, the
\* escrow and a vault it holds, succeeds.
C3_ExecuteSucceeds ==
    /\ \A e \in EscrowAccts :
          Active(e) => TakeDerived(esc[e].rec.maker, esc[e].rec.bump).key = e
    /\ \A a \in TakeArgs :
          (/\ ~a.short /\ a.signer
           /\ Active(a.escrow)
           /\ a.maker = esc[a.escrow].rec.maker
           /\ a.mint_x = esc[a.escrow].rec.mint_x
           /\ a.mint_y = esc[a.escrow].rec.mint_y
           /\ tok[a.vault].open /\ tok[a.vault].owner = a.escrow
           /\ tok[a.vault].amount > 0
           /\ tok[a.vault].mint = tok[a.taker_ata_x].mint
           /\ tok[a.taker_ata_y].mint = tok[a.maker_ata_y].mint
           /\ tok[a.taker_ata_y].amount >= esc[a.escrow].rec.amount)
          => process_take_instruction(a).res = "Ok"

\* C5, as the spec states it: after every Create that succeeds, the vault
\* holds the X amount of that call's payload and the record's amount is the Y
\* amount of that payload.
C5_CreateAmounts ==
    \A a \in MakeArgs : \A b \in Bumps, q \in Quantities :
        LET o == process_make_instruction(a)
        IN (o.res = "Ok" /\ a.data = MakeData(b, q[1], q[2])) =>
              /\ o.tok[a.vault].amount = q[2]
              /\ o.esc[a.escrow].rec.amount = q[1]

\* C5: after every Create that succeeds on a slot whose data was empty, the
\* vault holds the X amount of the payload more than it held before and the
\* record's amount is the Y amount of the payload; a Create that succeeds on a
\* slot that holds data leaves the vault and the record as they were.
C5_CreateAmountsOnEmptySlot ==
    \A a \in MakeArgs : \A b \in Bumps, q \in Quantities :
        LET o == process_make_instruction(a)
        IN (o.res = "Ok" /\ a.data = MakeData(b, q[1], q[2])) =>
              IF esc[a.escrow].data_empty
              THEN /\ o.tok[a.vault].amount = tok[a.vault].amount + q[2]
                   /\ o.esc[a.escrow].rec.amount = q[1]
              ELSE /\ o.tok[a.vault] = tok[a.vault]
                   /\ o.esc[a.escrow] = esc[a.escrow]

\* The last call was a Create that allocated the escrow for the vault that
\* already held tokens, and the vault now holds them and the deposit.
C5_Witness ==
    /\ last.op = "make" /\ last.changed
    /\ Active(E1)
    /\ tok["V2"].open /\ tok["V2"].amount > Prefund
    /\ tok["V2"].amount + tok["AX"].amount = InitTokens + Prefund

\* C7: the entrypoint hands tag 0 to Create, 1 to Execute and 2 to Cancel with
\* the accounts and the rest of the data, and turns down empty data and every
\* other tag without changing anything.
C7_Dispatch ==
    /\ \A a \in MakeArgs :
          process_instruction(a, <<0>> \o a.data) = process_make_instruction(a)
    /\ \A a \in TakeArgs :
          process_instruction(a, <<1>>) = process_take_instruction(a)
    /\ \A a \in RefundArgs :
          process_instruction(a, <<2>>) = process_refund_instruction(a)
    /\ \A a \in EntryAccounts, d \in EntryData :
          (Len(d) = 0 \/ d[1] \notin {0, 1, 2}) => Rejected(process_instruction(a, d))

\* Some input of Create breaks one of the rules Create checks.
BadPayload(a) == Len(a.data) < 17

BadAddress(a) ==
    \/ ~checked_create_program_address(a.maker, <<a.data[1]>>).ok
    \/ checked_create_program_address(a.maker, <<a.data[1]>>).key # a.escrow

BadMintOrVault(a) ==
    \/ MintOwner(a.mint_x) # "Token"
    \/ MintOwner(a.mint_y) # "Token"
    \/ ~tok[a.vault].open
    \/ tok[a.vault].owner # a.escrow

\* C9, as the spec states it: a Create is turned down, with nothing created,
\* written or moved, when its payload is shorter than 17 bytes, when the escrow
\* account is not the address derived from the maker and the bump, when a mint
\* is not owned by the token program, or when the vault is not a token account
\* held by the escrow's address.
C9_CreateRejected ==
    \A a \in MakeArgs :
        (~a.short /\ (BadPayload(a) \/ BadAddress(a) \/ BadMintOrVault(a)))
        => Rejected(process_make_instruction(a))

\* C9: a Create whose payload is shorter than 17 bytes or whose escrow account
\* is not the address derived from the maker and the bump is turned down; so
\* is a Create on a slot without data when a mint is not owned by the token
\* program or the vault is not a token account held by the escrow's address;
\* and in each of these cases, also on a slot that holds data, where the call
\* returns success, nothing is created, written or moved.
C9_CreateRejectedOnEmptySlot ==
    \A a \in MakeArgs :
        LET o == process_make_instruction(a)
        IN /\ (~a.short /\ (BadPayload(a) \/ BadAddress(a))) => Rejected(o)
           /\ (~a.short /\ BadMintOrVault(a) /\ esc[a.escrow].data_empty) => Rejected(o)
           /\ (~a.short /\ (BadPayload(a) \/ BadAddress(a) \/ BadMintOrVault(a)))
              => ~Changed(o)

\* One escrow is Active and a Create on it with a mint the token program does
\* not own returns success without effect, while the same Create on the slot
\* that is still empty is turned down.
C9_Witness ==
    /\ \E a \in MakeArgs :
          /\ ~a.short /\ Active(a.escrow) /\ ~BadPayload(a) /\ ~BadAddress(a)
          /\ MintOwner(a.mint_x) # "Token"
          /\ process_make_instruction(a).res = "Ok"
    /\ \E a \in MakeArgs :
          /\ ~a.short /\ esc[a.escrow].data_empty /\ ~BadPayload(a) /\ ~BadAddress(a)
          /\ MintOwner(a.mint_x) # "Token"
          /\ process_make_instruction(a).res = "Panic:mint_x"

\* The Create names the address derived from its maker and bump.
WellAddressed(a) == ~a.short /\ ~BadPayload(a) /\ ~BadAddress(a)

C11_SignedOnly ==
    \A sg \in BOOLEAN :
        /\ \A a \in MakeArgs :
              LET o == process_make_instruction([a EXCEPT !.signer = sg])
              IN (o.res = "Ok" /\ Changed(o)) => sg
        /\ \A a \in RefundArgs :
              process_refund_instruction([a EXCEPT !.signer = sg]).res = "Ok" => sg
        /\ \A a \in TakeArgs :
              (\/ process_take_instruction([a EXCEPT !.signer = sg]).res = "Ok"
               \/ TakeSettle([a EXCEPT !.signer = sg]).res = "Ok")
              => sg

\* The last call was a Create that allocated an escrow; a Create on the slot
\* that is still empty, good but for the maker's signature, is turned down by
\* the system program; and the legs of an Execute go through for a taker who
\* signs and not for the same taker unsigned.
C11_Witness ==
    /\ last.op = "make" /\ last.changed
    /\ \E a \in MakeArgs :
          /\ ~a.signer /\ WellAddressed(a) /\ ~BadMintOrVault(a)
          /\ esc[a.escrow].data_empty
          /\ process_make_instruction(a).res = "CreateAccountFailed"
    /\ \E a \in TakeArgs :
          /\ a.signer /\ Active(a.escrow) /\ TakeSettle(a).res = "Ok"
          /\ TakeSettle([a EXCEPT !.signer = FALSE]).res = "TransferFailed"

\* C12: while an escrow is Active, a vault it holds loses tokens, or is closed,
\* only in a step that is a successful Execute or Cancel naming that escrow
\* and that vault, and the seeds ("escrow", maker, bump) of the record are the
\* ones the escrow's address is derived from.
C12_VaultDebits ==
    [][\A v \in Vaults :
          (/\ tok[v].open /\ Active(tok[v].owner)
           /\ (~tok'[v].open \/ tok'[v].amount < tok[v].amount))
          => /\ last'.op \in {"take", "refund"}
             /\ <<tok[v].owner, v>> \in settled' \ settled
             /\ PdaSigns(esc[tok[v].owner].rec.maker, esc[tok[v].owner].rec.bump,
                         tok[v].owner)]_vars

\* A Cancel has emptied and closed vault V1 of escrow E1, and the other vault
\* E1's address holds still has what it had.
C12_Witness ==
    /\ last.op = "refund"
    /\ <<E1, "V1">> \in settled
    /\ ~tok["V1"].open
    /\ tok["V2"].open /\ tok["V2"].amount = Prefund

\* C13: after every Execute and every Cancel that succeeds, the vault and the
\* escrow account are both closed, each with no lamports and no data, and the
\* maker has been credited with all the lamports the two held.
C13_BothClosed ==
    /\ \A a \in RefundArgs :
          LET o == process_refund_instruction(a)
          IN o.res = "Ok" =>
                /\ ~o.tok[a.vault].open /\ o.tok[a.vault].lamports = 0
                /\ o.esc[a.escrow].lamports = 0 /\ o.esc[a.escrow].data_empty
                /\ o.wallet[a.maker]
                     = wallet[a.maker] + tok[a.vault].lamports + esc[a.escrow].lamports
    /\ \A a \in TakeArgs :
          LET o == process_take_instruction(a)
          IN o.res = "Ok" =>
                /\ ~o.tok[a.vault].open /\ o.tok[a.vault].lamports = 0
                /\ o.esc[a.escrow].lamports = 0 /\ o.esc[a.escrow].data_empty
                /\ o.wallet[a.maker]
                     = wallet[a.maker] + tok[a.vault].lamports + esc[a.escrow].lamports

\* --------------------------------------------- the order of a handler's steps

\* What each handler does, in the order of its statements: the line of the
\* statement and whether it validates an input (check), chooses a branch
\* without failing (branch), or creates an account, writes the record, moves
\* tokens, closes an account or moves lamports.
Step(k, l) == [kind |-> k, at |-> l]

\* A plausible slip: the vault's owner is compared after the account is created.
MakeStepsLateCheck ==
    <<Step("check", 52), Step("check", 56), Step("check", 66), Step("branch", 68),
      Step("check", 71), Step("check", 72), Step("check", 83),
      Step("create", 94), Step("check", 102), Step("write", 104),
      Step("transfer", 116)>>

MakeSteps ==
    <<Step("check", 52), Step("check", 56), Step("check", 66), Step("branch", 68),
      Step("check", 71), Step("check", 72), Step("check", 75), Step("check", 83),
      Step("create", 94), Step("write", 104), Step("transfer", 116)>>

TakeSteps ==
    <<Step("check", 50), Step("check", 54), Step("check", 58), Step("check", 59),
      Step("check", 62), Step("check", 69), Step("transfer", 73),
      Step("transfer", 93), Step("close", 103), Step("lamports", 113)>>

RefundSteps ==
    <<Step("check", 41), Step("check", 45), Step("check", 51), Step("check", 55),
      Step("check", 56), Step("check", 59), Step("check", 63),
      Step("transfer", 79), Step("close", 89), Step("lamports", 99)>>

\* The line of the last statement a call runs: the one that fails, or the
\* last of the handler.
MakeStop(a) ==
    LET r == process_make_instruction(a).res
    IN CASE r = "NotEnoughAccountKeys" -> 52
         [] r = "InvalidInstructionData" -> 56
         [] r \in {"Panic:unwrap", "Panic:pda"} -> 66
         [] r = "Panic:mint_x" -> 71
         [] r = "Panic:mint_y" -> 72
         [] r \in {"Panic:vault", "Panic:vault_owner"} -> 75
         [] r = "AccountAlreadyInitialized" -> 83
         [] r = "CreateAccountFailed" -> 94
         [] r = "TransferFailed" -> 116
         [] OTHER -> IF esc[a.escrow].data_empty THEN 116 ELSE 68

TakeStop(a) ==
    LET c == TakeChecks(a)
        r == TakeSettle(a).res
        rec == esc[a.escrow].rec
    IN CASE c = "NotEnoughAccountKeys" -> 50
         [] c = "Panic:escrow" -> 54
         [] c = "Panic:mint_x" -> 58
         [] c = "Panic:mint_y" -> 59
         [] c = "InvalidAccountData" -> 62
         [] c = "Panic:pda" -> 69
         [] OTHER ->
              IF ~TransferOk(tok, a.taker_ata_y, a.maker_ata_y, a.taker, a.signer,
                             rec.amount)
              THEN 73
              ELSE IF r \in {"AccountBorrowFailed", "TransferFailed"} THEN 93
              ELSE IF r = "CloseFailed" THEN 103
              ELSE 113

RefundStop(a) ==
    LET c == RefundChecks(a)
        r == RefundSettle(a).res
    IN CASE c = "NotEnoughAccountKeys" -> 41
         [] c = "MissingRequiredSignature" -> 45
         [] c = "Panic:escrow" -> 51
         [] c = "Panic:maker" -> 55
         [] c = "Panic:mint_x" -> 56
         [] c = "InvalidAccountData" -> 59
         [] c = "Panic:vault_owner" -> 63
         [] OTHER ->
              IF r \in {"AccountBorrowFailed", "TransferFailed"} THEN 79
              ELSE IF r = "CloseFailed" THEN 89
              ELSE 99

\* The steps a call runs: those of the handler up to the line it stops at.
Ran(steps, stop) == SelectSeq(steps, LAMBDA st : st.at <= stop)

Effects == {"create", "write", "transfer", "close", "lamports"}

\* No check comes after a creation, a write or a transfer.
ChecksFirst(run) ==
    \A i, j \in 1..Len(run) :
        (i < j /\ run[i].kind \in Effects) => run[j].kind # "check"

Uninitialized(e) == esc[e].data_empty

Closed(e) == ~esc[e].data_empty /\ esc[e].lamports = 0

\* The steps an escrow account takes: out of Uninitialized only to Active and
\* only by a Create that succeeds; out of Active only to Closed and only by an
\* Execute or a Cancel that succeeds on it, each of which leaves it Closed; out
\* of Closed only by the ledger removing the account.
LifecycleStep(e) ==
    /\ (Uninitialized(e) /\ ~Uninitialized(e)')
       => (Active(e)' /\ last'.op = "make" /\ last'.changed)
    /\ (Active(e) /\ ~Active(e)')
       => /\ Closed(e)'
          /\ last'.op \in {"take", "refund"}
          /\ \E v \in Vaults : <<e, v>> \in settled' \ settled
    /\ (Closed(e) /\ ~Closed(e)')
       => (Uninitialized(e)' /\ last'.op = "reclaim")
    /\ \A v \in Vaults : <<e, v>> \in settled' \ settled => Closed(e)'

\* C15, as the spec states it: an escrow changes state only from Uninitialized
\* to Active, by a Create that succeeds, and from Active to Closed, by an
\* Execute or a Cancel that succeeds; and an escrow that has been closed is
\* never Active again.
C15_ClosedIsTerminal ==
    [][\A e \in EscrowAccts :
          /\ LifecycleStep(e)
          /\ (\E v \in Vaults : <<e, v>> \in settled) => ~Active(e)']_vars

\* C15: an escrow changes state only from Uninitialized to Active, by a Create
\* that succeeds, and from Active to Closed, by an Execute or a Cancel that
\* succeeds; a Closed account never becomes Active in one step, but once the
\* ledger has removed it its address is Uninitialized again and a new Create
\* for the same maker and bump may make it Active.
C15_Lifecycle == [][\A e \in EscrowAccts : LifecycleStep(e)]_vars

\* An escrow on which a Cancel has succeeded is Active again, by the last
\* call, a Create.
C15_Witness ==
    /\ last.op = "make" /\ last.changed
    /\ \E e \in EscrowAccts :
          Active(e) /\ \E v \in Vaults : <<e, v>> \in settled

\* C16: in every reachable state in which an escrow is Active, a Cancel signed
\* by the recorded maker that names the record's mint_x, the escrow, a vault
\* the escrow holds and the maker's account of the vault's mint succeeds.
C16_CancelAlwaysPossible ==
    \A a \in RefundArgs :
        (/\ ~a.short /\ a.signer
         /\ Active(a.escrow)
         /\ a.maker = esc[a.escrow].rec.maker
         /\ a.mint_a = esc[a.escrow].rec.mint_x
         /\ tok[a.vault].open /\ tok[a.vault].owner = a.escrow
         /\ tok[a.maker_ata_a].open
         /\ tok[a.maker_ata_a].owner = a.maker
         /\ tok[a.maker_ata_a].mint = tok[a.vault].mint)
        => process_refund_instruction(a).res = "Ok"

\* C18: in every reachable state the tokens in a vault held by an Active
\* escrow are of the record's mint_x, and a Create that succeeds and allocates
\* the record debits an account of the mint it records as mint_x and pays
\* into a vault of that mint.
C18_VaultHoldsMintX ==
    /\ \A e \in EscrowAccts : \A v \in Vaults :
          (Active(e) /\ tok[v].open /\ tok[v].owner = e /\ tok[v].amount > 0)
          => tok[v].mint = esc[e].rec.mint_x
    /\ \A a \in MakeArgs :
          LET o == process_make_instruction(a)
          IN (o.res = "Ok" /\ Changed(o))
             => (tok[a.maker_ata].mint = a.mint_x /\ tok[a.vault].mint = a.mint_x)

\* --------------------------------------------------------------- totals

RECURSIVE SumOver(_, _)
SumOver(f, S) ==
    IF S = {} THEN 0
    ELSE LET x == CHOOSE y \in S : TRUE IN f[x] + SumOver(f, S \ {x})

\* All the tokens of one mint, over the token accounts.
TokenTotal(t, m) ==
    SumOver([k \in TokAccts |-> IF t[k].open /\ t[k].mint = m THEN t[k].amount ELSE 0],
            TokAccts)

\* All the lamports, over wallets, escrow accounts and token accounts.
LamportTotal(w, e, t) ==
    SumOver(w, Wallets)
    + SumOver([k \in EscrowAccts |-> e[k].lamports], EscrowAccts)
    + SumOver([k \in TokAccts |-> t[k].lamports], TokAccts)

\* The outcome of a call has the tokens of each mint and the lamports it
\* started with.
Conserves(o) ==
    ~Changed(o)
    \/ /\ \A m \in Mints : TokenTotal(o.tok, m) = TokenTotal(tok, m)
       /\ LamportTotal(o.wallet, o.esc, o.tok) = LamportTotal(wallet, esc, tok)

\* C19: every Create, Execute and Cancel, whether it succeeds or is turned
\* down, and the legs and closing of Execute taken by themselves, leave the
\* total of each mint over all token accounts and the total of lamports over
\* all accounts as they were; so in every reachable state the totals are those
\* of the start.
C19_Conservation ==
    /\ \A a \in MakeArgs : Conserves(process_make_instruction(a))
    /\ \A a \in TakeArgs :
          Conserves(process_take_instruction(a)) /\ Conserves(TakeSettle(a))
    /\ \A a \in RefundArgs : Conserves(process_refund_instruction(a))
    /\ TokenTotal(tok, "MX") = InitTokens + Prefund
    /\ TokenTotal(tok, "MY") = InitTokens
    /\ LamportTotal(wallet, esc, tok)
         = Cardinality(Wallets) * InitLamports + Cardinality(TokAccts)

\* The last call was a Cancel and the maker holds, besides what the wallet
\* started with, the lamports of the vault that was closed.
C19_Witness ==
    /\ last.op = "refund"
    /\ wallet[A] = InitLamports + 1
    /\ \A e \in EscrowAccts : esc[e].lamports = 0

\* C20: a Create, an Execute or a Cancel naming one escrow, and the legs and
\* closing of Execute taken by themselves, leave the account of every other
\* escrow, and every vault held by another escrow's address, as they were.
OthersUntouched(escrow, o) ==
    /\ \A e \in EscrowAccts \ {escrow} : o.esc[e] = esc[e]
    /\ \A v \in Vaults :
          (tok[v].open /\ tok[v].owner # escrow) => o.tok[v] = tok[v]

====
